---- MODULE Spec2Model ----
(***************************************************************************)
(* Model of meteormin/gollection: the Collection wrapper (collection.go)   *)
(* over the index-callback slice toolkit (pkg/slice), with Go slices       *)
(* modelled as headers (array, offset, length) over a heap of backing      *)
(* arrays so that aliasing between slices is observable.                   *)
(***************************************************************************)
EXTENDS Integers, Sequences, FiniteSets, TLC

\* ---------------------------------------------------------------- bounds
MaxVal == 2
MaxLen == 2
MaxChunk == 3
AlgMaxVal == 3
AlgMaxLen == 4
MaxKey == 2
MaxProc == 2

Val == 1..MaxVal
Coll == {"c", "d"}
Other(b) == IF b = "c" THEN "d" ELSE "c"
Key == 1..MaxKey
Proc == 1..MaxProc
MapColl == {"x", "y"}
OtherMap(b) == IF b = "x" THEN "y" ELSE "x"

\* ------------------------------------------------------- Go slice values
\* A slice header; arr = 0 is the nil / zero-capacity slice.
NilSlice == [arr |-> 0, off |-> 0, len |-> 0]

Zeros(n) == [i \in 1..n |-> 0]

Cap(h, sl) == IF sl.arr = 0 THEN 0 ELSE Len(h[sl.arr]) - sl.off

\* The elements a slice shows: s[0], ..., s[len(s)-1].
Elems(h, sl) == [i \in 1..sl.len |-> h[sl.arr][sl.off + i]]

\* Result of a toolkit call: the heap after it, the slice it returns, a
\* value it returns (0 when none) and whether it panicked.
Res(h, sl) == [h |-> h, s |-> sl, val |-> 0, panic |-> FALSE]
ResVal(h, sl, v) == [h |-> h, s |-> sl, val |-> v, panic |-> FALSE]
PanicRes(h) == [h |-> h, s |-> NilSlice, val |-> 0, panic |-> TRUE]

\* make([]T, n) filled with the given elements (len = cap = n).
Alloc(h, elems) ==
    IF elems = <<>> THEN Res(h, NilSlice)
    ELSE Res(Append(h, elems), [arr |-> Len(h) + 1, off |-> 0, len |-> Len(elems)])

\* Capacity chosen by the runtime when append must grow ([]int, small
\* slices): double the old capacity, or the needed length rounded up to
\* an allocation size class when that is larger.
RoundUpCap(n) == IF n <= 4 \/ n % 2 = 0 THEN n ELSE n + 1
GrowCap(old, needed) == IF needed > 2 * old THEN RoundUpCap(needed) ELSE 2 * old

\* append(sl, vs...): writes in place when the capacity allows, otherwise
\* moves to a fresh backing array.
GoAppend(h, sl, vs) ==
    LET n == sl.len + Len(vs) IN
    IF vs = <<>> THEN Res(h, sl)
    ELSE IF n <= Cap(h, sl)
    THEN Res([h EXCEPT ![sl.arr] =
                 [k \in 1..Len(@) |->
                     IF k > sl.off + sl.len /\ k <= sl.off + n
                     THEN vs[k - sl.off - sl.len] ELSE @[k]]],
             [sl EXCEPT !.len = n])
    ELSE Res(Append(h, Elems(h, sl) \o vs \o Zeros(GrowCap(Cap(h, sl), n) - n)),
             [arr |-> Len(h) + 1, off |-> 0, len |-> n])

\* for _, v := range vs { s = append(s, v) }
RECURSIVE AppendEach(_, _, _)
AppendEach(h, sl, vs) ==
    IF vs = <<>> THEN Res(h, sl)
    ELSE LET r == GoAppend(h, sl, <<Head(vs)>>) IN AppendEach(r.h, r.s, Tail(vs))

\* --------------------------------------------------- pkg/slice (toolkit)
\* Mutant: Copy returns its argument.
SliceCopyAlias(h, sl) == Res(h, sl)

SliceCopy(h, sl) == Alloc(h, Elems(h, sl))

\* Mutant: the value is put in front.
SliceAddFront(h, sl, v) == Alloc(h, <<v>> \o Elems(h, sl))

SliceAdd(h, sl, v) == GoAppend(h, sl, <<v>>)

SlicePush(h, sl, v) == SliceAdd(h, sl, v)

\* append(s[:index], s[index+1:]...)
SliceRemove(h, sl, index) ==
    IF index < 0 \/ index > Cap(h, sl) \/ index + 1 > sl.len THEN PanicRes(h)
    ELSE GoAppend(h, [sl EXCEPT !.len = index],
                  SubSeq(Elems(h, sl), index + 2, sl.len))

SliceConcat(h, sl, sl2) ==
    IF sl2.len = 0 THEN Res(h, sl) ELSE AppendEach(h, sl, Elems(h, sl2))

\* Mutant: the popped item is returned and the slice keeps its length.
SlicePopKeeps(h, sl) ==
    IF sl.len = 0 THEN PanicRes(h)
    ELSE ResVal(h, sl, Elems(h, sl)[sl.len])

SlicePop(h, sl) ==
    IF sl.len = 0 THEN PanicRes(h)
    ELSE ResVal(h, [sl EXCEPT !.len = sl.len - 1], Elems(h, sl)[sl.len])

\* Concat([]T{i}, s)
SliceEnqueue(h, sl, v) ==
    LET lit == Alloc(h, <<v>>) IN SliceConcat(lit.h, lit.s, sl)

SliceDequeue(h, sl) ==
    IF sl.len = 0 THEN PanicRes(h)
    ELSE ResVal(h, [sl EXCEPT !.off = sl.off + 1, !.len = sl.len - 1], Elems(h, sl)[1])

SliceFirst(h, sl) == IF sl.len = 0 THEN PanicRes(h) ELSE ResVal(h, sl, Elems(h, sl)[1])

SliceLast(h, sl) == IF sl.len = 0 THEN PanicRes(h) ELSE ResVal(h, sl, Elems(h, sl)[sl.len])

\* merge = append(s1, s2...)
SliceMerge(h, s1, s2) == GoAppend(h, s1, Elems(h, s2))

RECURSIVE ReverseLoop(_, _, _, _)
ReverseLoop(h, sl, acc, i) ==
    IF i < 0 THEN Res(h, acc)
    ELSE LET r == GoAppend(h, acc, <<Elems(h, sl)[i + 1]>>) IN ReverseLoop(r.h, sl, r.s, i - 1)

\* Mutant: the loop starts one element early (i := len(s) - 2).
SliceReverseShort(h, sl) == ReverseLoop(h, sl, NilSlice, sl.len - 2)

SliceReverse(h, sl) == ReverseLoop(h, sl, NilSlice, sl.len - 1)

\* s[start:end]
SliceSlice(h, sl, start, end) ==
    IF start < 0 \/ end < start \/ end > Cap(h, sl) THEN PanicRes(h)
    ELSE Res(h, IF end = start /\ sl.arr = 0 THEN NilSlice
                ELSE [sl EXCEPT !.off = sl.off + start, !.len = end - start])

\* Callbacks the caller may pass.  A mapper fn(v, i) and a predicate
\* fn(v, i), each deciding by the value or by the index; a predicate may
\* be the negation of another (func(v, i) bool { return !fn(v, i) }).
MapFns == {"succ", "idx"}
MapFn(fn, v, i) == IF fn = "succ" THEN (v % MaxVal) + 1 ELSE (i % MaxVal) + 1

PredFns == {[byIndex |-> FALSE, k |-> x, neg |-> n] : x \in Val, n \in BOOLEAN}
               \cup {[byIndex |-> TRUE, k |-> 0, neg |-> n] : n \in BOOLEAN}
Pred(fn, v, i) == (IF fn.byIndex THEN i = fn.k ELSE v = fn.k) # fn.neg
Not(fn) == [fn EXCEPT !.neg = ~@]

RECURSIVE MapLoop(_, _, _, _, _)
MapLoop(h, sl, fn, acc, i) ==
    IF i >= sl.len THEN Res(h, acc)
    ELSE LET r == GoAppend(h, acc, <<MapFn(fn, Elems(h, sl)[i + 1], i)>>)
         IN MapLoop(r.h, sl, fn, r.s, i + 1)

SliceMap(h, sl, fn) == MapLoop(h, sl, fn, NilSlice, 0)

RECURSIVE FilterLoop(_, _, _, _, _, _)
FilterLoop(h, sl, fn, keep, acc, i) ==
    IF i >= sl.len THEN Res(h, acc)
    ELSE LET v == Elems(h, sl)[i + 1]
             r == IF Pred(fn, v, i) = keep THEN GoAppend(h, acc, <<v>>) ELSE Res(h, acc)
         IN FilterLoop(r.h, sl, fn, keep, r.s, i + 1)

SliceFilter(h, sl, fn) == FilterLoop(h, sl, fn, TRUE, NilSlice, 0)

\* Mutant: Except tests f instead of !f.
SliceExceptKeeps(h, sl, fn) == FilterLoop(h, sl, fn, TRUE, NilSlice, 0)

SliceExcept(h, sl, fn) == FilterLoop(h, sl, fn, FALSE, NilSlice, 0)

\* The callback of For and Each records its arguments (v, i).
\* for i, v := range s { fn(v, i) }; return s
RECURSIVE ForLoop(_, _, _, _)
ForLoop(h, sl, i, log) ==
    IF i >= sl.len THEN log
    ELSE ForLoop(h, sl, i + 1, Append(log, [v |-> Elems(h, sl)[i + 1], i |-> i]))

\* Mutant: the loop stops one element early (i < len(s) - 1).
SliceForShort(h, sl) ==
    [h |-> h, s |-> sl, calls |-> ForLoop(h, [sl EXCEPT !.len = IF @ > 0 THEN @ - 1 ELSE 0], 0, <<>>)]

SliceFor(h, sl) == [h |-> h, s |-> sl, calls |-> ForLoop(h, sl, 0, <<>>)]

\* slice.Each(s, fn) with fn(v, i): invokes fn for every element in order
\* and returns s.
SliceEach(h, sl) == [h |-> h, s |-> sl, calls |-> ForLoop(h, sl, 0, <<>>)]

\* Go integer division truncates toward zero (a >= 0 here).
GoDiv(a, b) == IF b > 0 THEN a \div b ELSE -(a \div (-b))

\* The chunk callback: "log" records its arguments, "nil" is a nil func.
ChunkFns == {"log", "nil"}

RECURSIVE ChunkLoop(_, _, _, _, _, _, _)
ChunkLoop(h, sl, chunkSize, callback, chunkedSize, i, acc) ==
    IF i >= chunkedSize THEN acc
    ELSE LET lo == i * chunkSize
             chunkSlice == IF lo + chunkSize <= sl.len - 1
                           THEN [sl EXCEPT !.off = sl.off + lo, !.len = chunkSize]
                           ELSE [sl EXCEPT !.off = sl.off + lo, !.len = sl.len - lo]
         IN IF callback = "nil" THEN [acc EXCEPT !.panic = TRUE]
            ELSE ChunkLoop(h, sl, chunkSize, callback, chunkedSize, i + 1,
                           [acc EXCEPT !.chunks = Append(@, chunkSlice),
                                       !.calls = Append(@, [v |-> Elems(h, chunkSlice), i |-> i])])

\* chunkedSize := int(math.Ceil(float64(len(s) / chunkSize))): the division
\* is an integer division, so Ceil has nothing left to round up.
SliceChunk(h, sl, chunkSize, callback) ==
    IF chunkSize = 0 THEN [chunks |-> <<>>, calls |-> <<>>, panic |-> TRUE]
    ELSE ChunkLoop(h, sl, chunkSize, callback, GoDiv(sl.len, chunkSize), 0,
                   [chunks |-> <<>>, calls |-> <<>>, panic |-> FALSE])

\* sort.Slice(items, less) for len(items) <= 12: insertion sort that swaps
\* the elements of items and asks less(i, j) about indices.  The less
\* functions compare the elements the caller sees at i and j, i.e. those of
\* the slice `seen`.
LessFns == {"asc", "desc"}
Less(h, seen, fn, i, j) ==
    IF fn = "asc" THEN Elems(h, seen)[i + 1] < Elems(h, seen)[j + 1]
    ELSE Elems(h, seen)[i + 1] > Elems(h, seen)[j + 1]

Swap(h, sl, i, j) ==
    [h EXCEPT ![sl.arr] = [@ EXCEPT ![sl.off + i + 1] = h[sl.arr][sl.off + j + 1],
                                    ![sl.off + j + 1] = h[sl.arr][sl.off + i + 1]]]

RECURSIVE InsertInner(_, _, _, _, _)
InsertInner(h, sl, seen, fn, j) ==
    IF j > 0 /\ Less(h, seen, fn, j, j - 1)
    THEN InsertInner(Swap(h, sl, j, j - 1), sl, seen, fn, j - 1)
    ELSE h

RECURSIVE InsertionSort(_, _, _, _, _)
InsertionSort(h, sl, seen, fn, i) ==
    IF i >= sl.len THEN h
    ELSE InsertionSort(InsertInner(h, sl, seen, fn, i), sl, seen, fn, i + 1)

SortSlice(h, sl, seen, fn) == Res(InsertionSort(h, sl, seen, fn, 1), sl)

\* ------------------------- pkg/slice, the revision with value callbacks
\* Predicates fn(v) of the value alone.
ValuePredFns == {fn \in PredFns : ~fn.byIndex}

\* slices.DeleteFunc(s, del): moves the elements to keep to the front of
\* s, in place; j counts them.
RECURSIVE DeleteFuncLoop(_, _, _, _, _)
DeleteFuncLoop(h, sl, del, j, i) ==
    IF i >= sl.len THEN [h |-> h, j |-> j]
    ELSE LET v == h[sl.arr][sl.off + i + 1]
         IN IF Pred(del, v, i)
            THEN DeleteFuncLoop(h, sl, del, j, i + 1)
            ELSE DeleteFuncLoop([h EXCEPT ![sl.arr][sl.off + j + 1] = v], sl, del, j + 1, i + 1)

\* The toolkit uses slices.Concat, so it builds with Go 1.22 or later,
\* where DeleteFunc zeroes the obsolete tail (clear(s[j:])) and returns
\* s[:j].
DeleteFunc(h, sl, del) ==
    LET r == DeleteFuncLoop(h, sl, del, 0, 0)
    IN Res(IF r.j < sl.len
           THEN [r.h EXCEPT ![sl.arr] =
                    [k \in 1..Len(@) |->
                        IF k > sl.off + r.j /\ k <= sl.off + sl.len THEN 0 ELSE @[k]]]
           ELSE r.h,
           [sl EXCEPT !.len = r.j])

\* _ = slices.DeleteFunc(s, fn); return s
ExceptByValue(h, sl, fn) == Res(DeleteFunc(h, sl, fn).h, sl)

\* filtered := make([]T, 0); append v when fn(v)
FilterByValue(h, sl, fn) == FilterLoop(h, sl, fn, TRUE, NilSlice, 0)

\* clear(s[from:]): zeroes the cells from position from to len(s).
ClearTail(h, sl, from) ==
    IF from >= sl.len THEN h
    ELSE [h EXCEPT ![sl.arr] =
             [k \in 1..Len(@) |->
                 IF k > sl.off + from /\ k <= sl.off + sl.len THEN 0 ELSE @[k]]]

\* slices.Compact(s): for k := 1; k < len(s); k++ { if s[k] != s[k-1]
\* { s[i] = s[k]; i++ } }, in place; i counts the elements kept.
RECURSIVE CompactLoop(_, _, _, _)
CompactLoop(h, sl, i, k) ==
    IF k >= sl.len THEN [h |-> h, i |-> i]
    ELSE LET cur == h[sl.arr][sl.off + k + 1]
             prev == h[sl.arr][sl.off + k]
         IN IF cur # prev
            THEN CompactLoop([h EXCEPT ![sl.arr][sl.off + i + 1] = cur], sl, i + 1, k + 1)
            ELSE CompactLoop(h, sl, i, k + 1)

\* Keeps the first occurrence of every value (all duplicates removed).
RECURSIVE Distinct(_, _)
Distinct(seq, acc) ==
    IF seq = <<>> THEN acc
    ELSE Distinct(Tail(seq), IF \E j \in DOMAIN acc : acc[j] = Head(seq)
                             THEN acc ELSE Append(acc, Head(seq)))

\* Mutant: Compact removes every duplicate, adjacent or not.
CompactAll(h, sl) == Alloc(h, Distinct(Elems(h, sl), <<>>))

\* return slices.Compact(s), which zeroes the obsolete tail: clear(s[i:]).
Compact(h, sl) ==
    IF sl.len < 2 THEN Res(h, sl)
    ELSE LET r == CompactLoop(h, sl, 1, 1)
         IN Res(ClearTail(r.h, sl, r.i), [sl EXCEPT !.len = r.i])

\* clear(s); return s
Clear(h, sl) == Res(ClearTail(h, sl, 0), sl)

\* The index-callback revision: s = make([]T, 0); return s
SliceClear(h, sl) == Res(h, NilSlice)

\* return slices.Delete(s, i, i+1): append(s[:i], s[i+1:]...), the vacated
\* last cell zeroed (clear(s[len(s):oldlen])).
RemoveByDelete(h, sl, i) ==
    LET r == SliceRemove(h, sl, i)
    IN IF r.panic THEN r
       ELSE Res(ClearTail(r.h, sl, r.s.len), r.s)

\* Chunk(s, chunkSize, fn ...func(v []T)) for chunkSize > 0: the callback
\* is fn[0] when one is given and a nil func otherwise, and the loop calls
\* it for every chunk.
RECURSIVE ChunkByValueLoop(_, _, _, _, _, _, _)
ChunkByValueLoop(h, sl, chunkSize, given, chunkedSize, i, acc) ==
    IF i >= chunkedSize THEN acc
    ELSE LET lo == i * chunkSize
             chunkSlice == IF lo + chunkSize <= sl.len - 1
                           THEN [sl EXCEPT !.off = sl.off + lo, !.len = chunkSize]
                           ELSE [sl EXCEPT !.off = sl.off + lo, !.len = sl.len - lo]
         IN IF ~given THEN [acc EXCEPT !.panic = TRUE]
            ELSE ChunkByValueLoop(h, sl, chunkSize, given, chunkedSize, i + 1,
                                  [acc EXCEPT !.chunks = Append(@, chunkSlice),
                                              !.calls = Append(@, Elems(h, chunkSlice))])

\* chunkedSize := int(math.Ceil(float64(len(s)) / float64(chunkSize)))
ChunkByValue(h, sl, chunkSize, given) ==
    ChunkByValueLoop(h, sl, chunkSize, given, (sl.len + chunkSize - 1) \div chunkSize, 0,
                     [chunks |-> <<>>, calls |-> <<>>, panic |-> FALSE])

\* slices.Reverse(s); return s
RECURSIVE ReverseSwaps(_, _, _, _)
ReverseSwaps(h, sl, i, j) ==
    IF i >= j THEN h ELSE ReverseSwaps(Swap(h, sl, i, j), sl, i + 1, j - 1)

ReverseInPlace(h, sl) == Res(ReverseSwaps(h, sl, 0, sl.len - 1), sl)

\* slices.Sort(s); return s
SortInPlace(h, sl) == SortSlice(h, sl, sl, "asc")

\* ------------------------------------------- collection.go (pure parts)
\* Result of a Collection method: a toolkit result plus the error value.
CRes(r, err) == [h |-> r.h, s |-> r.s, val |-> r.val, panic |-> r.panic, err |-> err]

\* Mutant: the Collection keeps the slice it is given.
NewCollectionAlias(h, sl) == Res(h, sl)

\* copyItems := make([]T, len(items)); copy(copyItems, items)
NewCollection(h, sl) == Alloc(h, Elems(h, sl))

\* Mutant: All hands out the Collection's own slice.
AllAlias(h, it) == Res(h, it)

All(h, it) == SliceCopy(h, it)

Count(it) == it.len

\* Mutant: the emptiness test never succeeds.
IsEmptyNever(it) == Count(it) < 0

IsEmpty(it) == Count(it) = 0

\* Mutant: Copy wraps the receiver's own slice in the new Collection.
CopyAlias(h, it) == Res(h, it)

Copy(h, it) == LET a == All(h, it) IN NewCollection(a.h, a.s)

Add(h, it, item) == SliceAdd(h, it, item)

Map(h, it, fn) ==
    LET a == All(h, it)
        m == SliceMap(a.h, a.s, fn)
    IN NewCollection(m.h, m.s)

Filter(h, it, fn) ==
    LET a == All(h, it)
        f == SliceFilter(a.h, a.s, fn)
    IN NewCollection(f.h, f.s)

Except(h, it, fn) ==
    LET a == All(h, it)
        e == SliceExcept(a.h, a.s, fn)
    IN NewCollection(e.h, e.s)

\* Returns the heap holding the chunked copy together with the chunks.
Chunk(h, it, chunkSize, fn) ==
    LET a == All(h, it)
        k == SliceChunk(a.h, a.s, chunkSize, fn)
    IN [h |-> a.h, chunks |-> k.chunks, calls |-> k.calls, panic |-> k.panic]

Remove(h, it, index) ==
    IF IsEmpty(it) THEN CRes(Res(h, it), "ErrIsEmpty")
    ELSE CRes(SliceRemove(h, it, index), "nil")

\* Concat(items ...T): items arrives as a slice of the given values.
Concat(h, it, vals) ==
    LET arg == Alloc(h, vals) IN SliceConcat(arg.h, it, arg.s)

Push(h, it, item) == SlicePush(h, it, item)

Pop(h, it) ==
    IF IsEmpty(it) THEN CRes(Res(h, it), "ErrIsEmpty")
    ELSE CRes(SlicePop(h, it), "nil")

Enqueue(h, it, item) == SliceEnqueue(h, it, item)

Dequeue(h, it) ==
    IF IsEmpty(it) THEN CRes(Res(h, it), "ErrIsEmpty")
    ELSE CRes(SliceDequeue(h, it), "nil")

First(h, it) ==
    IF IsEmpty(it) THEN CRes(Res(h, it), "ErrIsEmpty")
    ELSE LET a == All(h, it) IN CRes(ResVal(h, it, SliceFirst(a.h, a.s).val), "nil")

Last(h, it) ==
    IF IsEmpty(it) THEN CRes(Res(h, it), "ErrIsEmpty")
    ELSE LET a == All(h, it) IN CRes(ResVal(h, it, SliceLast(a.h, a.s).val), "nil")

Merge(h, it, merge) ==
    LET a == All(h, it)
        m == SliceMerge(a.h, a.s, merge)
    IN NewCollection(m.h, m.s)

Slice(h, it, start, end) ==
    LET a == All(h, it)
        sl == SliceSlice(a.h, a.s, start, end)
    IN IF sl.panic THEN PanicRes(h) ELSE NewCollection(sl.h, sl.s)

Reverse(h, it) ==
    LET a == All(h, it)
        r == SliceReverse(a.h, a.s)
    IN NewCollection(r.h, r.s)

\* items := b.All(); sort.Slice(items, fun); the caller's fun looks at the
\* receiver's elements.
Sort(h, it, fn) ==
    LET a == All(h, it)
        sorted == SortSlice(a.h, a.s, it, fn)
    IN NewCollection(sorted.h, sorted.s)

\* slice.For(b.items, fn)
For(h, it) == SliceFor(h, it)

\* slice.Each(b.items, fn)
Each(h, it) == SliceEach(h, it)

\* -------------------------------------------------------- pkg/iterator
\* &StructIterator[T]{index: 0, values: values}
NewIterator(h, values) == [h |-> h, it |-> [index |-> 0, values |-> values]]

HasNext(it) == it.index < it.values.len

\* Mutant: Next does not advance.
NextStays(h, it) ==
    IF HasNext(it)
    THEN [it |-> it, val |-> Elems(h, it.values)[it.index + 1], err |-> "nil"]
    ELSE [it |-> it, val |-> 0, err |-> "has not next"]

\* next := i.values[i.index]; i.index++; return &next, nil
IterNext(h, it) ==
    IF HasNext(it)
    THEN [it |-> [it EXCEPT !.index = @ + 1],
          val |-> Elems(h, it.values)[it.index + 1], err |-> "nil"]
    ELSE [it |-> it, val |-> 0, err |-> "has not next"]

\* Mutant: GetNext advances the cursor as Next does.
GetNextAdvances(h, it) == IterNext(h, it)

\* return &i.values[i.index], nil
GetNext(h, it) ==
    IF HasNext(it)
    THEN [it |-> it, val |-> Elems(h, it.values)[it.index + 1], err |-> "nil"]
    ELSE [it |-> it, val |-> 0, err |-> "has not next"]

GetIndex(it) == it.index

\* ------------------------------ collection.go, the Mapping Collection
\* A Go map is a reference to a map object; mh holds the map objects by
\* id, each a function from the keys present to their values.
\* maps.Copy: copyM := make(map[k]v, len(m)); copyM[key] = value for each.
MapsCopy(mh, id) == [mh |-> Append(mh, mh[id]), id |-> Len(mh) + 1]

\* &BaseCollectionMap[k, v]{items: items}
NewCollectionMap(mh, id) == [mh |-> mh, items |-> id]

MapAll(mh, it) == MapsCopy(mh, it)

\* b.items[key]: the zero value when the key is absent.
MapGet(mh, it, key) == IF key \in DOMAIN mh[it] THEN mh[it][key] ELSE 0

MapCount(mh, it) == Cardinality(DOMAIN mh[it])

MapCopy(mh, it) == LET a == MapAll(mh, it) IN NewCollectionMap(a.mh, a.id)

\* m[key] = item
MapStore(mh, id, key, item) ==
    [mh EXCEPT ![id] = [k \in (DOMAIN @) \cup {key} |-> IF k = key THEN item ELSE @[k]]]

\* delete(m, key)
MapDelete(mh, id, key) ==
    [mh EXCEPT ![id] = [k \in (DOMAIN @) \ {key} |-> @[k]]]

MapPut(mh, it, key, item) == MapStore(mh, it, key, item)

\* maps.For(m, fn) with fn = func(value, key) { merge[key] = value }: one
\* store per key of m; todo holds the keys not yet visited.
RECURSIVE MergeLoop(_, _, _, _)
MergeLoop(mh, merge, m, todo) ==
    IF todo = {} THEN mh
    ELSE LET key == CHOOSE k \in todo : TRUE
         IN MergeLoop(MapStore(mh, merge, key, mh[m][key]), merge, m, todo \ {key})

\* Mutant: a key the first map already has keeps its value.
MapsMergeKeepsFirst(mh, m1, m2) ==
    LET merge == MapsCopy(mh, m1)
    IN [mh |-> MergeLoop(merge.mh, merge.id, m2, (DOMAIN mh[m2]) \ (DOMAIN mh[m1])),
        id |-> merge.id]

\* maps.Merge(m1, m2): merge := Copy(m1), then every pair of m2 is stored.
MapsMerge(mh, m1, m2) ==
    LET merge == MapsCopy(mh, m1)
    IN [mh |-> MergeLoop(merge.mh, merge.id, m2, DOMAIN mh[m2]), id |-> merge.id]

\* NewCollectionMap(maps.Merge(b.All(), merge))
MapMerge(mh, it, merge) ==
    LET a == MapAll(mh, it)
        g == MapsMerge(a.mh, a.id, merge)
    IN NewCollectionMap(g.mh, g.id)

\* Mutant: delete without the presence test, always returning nil.
MapRemoveUnchecked(mh, it, key) == [mh |-> MapDelete(mh, it, key), err |-> "nil"]

MapRemove(mh, it, key) ==
    IF key \in DOMAIN mh[it]
    THEN [mh |-> MapDelete(mh, it, key), err |-> "nil"]
    ELSE [mh |-> mh, err |-> "this map has not key"]

\* ------------------------------------------- the asynchronous iterators
\* A StructAsyncIterator and the goroutines calling it: ch holds what the
\* buffered value channel holds (its capacity is len(values)); the quit
\* channel is unbuffered and holds nothing. pc is each goroutine's position
\* in its call, next and reg its local copies of a value and of the index,
\* errs the indices where an error is stored, sent how often each index
\* was sent.
NoAsync ==
    [index |-> 0, values |-> <<>>, ch |-> <<>>, errs |-> {},
     pc |-> [p \in Proc |-> "idle"], next |-> [p \in Proc |-> 0],
     reg |-> [p \in Proc |-> 0], sent |-> <<>>]

\* &StructAsyncIterator[T]{index: 0, values: values, ch: make(chan T,
\* len(values)), qch: make(chan bool), errs: make([]error, len(values))}
NewAsyncIterator(values) == [NoAsync EXCEPT !.values = values]

\* The revision whose Next returns the channel.
NewAsyncIteratorChan(values) ==
    [NoAsync EXCEPT !.values = values, !.sent = [i \in DOMAIN values |-> 0]]

\* len(a.values) > a.index
AsyncHasNext(a) == Len(a.values) > a.index

\* ------------------------------------------------------------ the state
VARIABLES
    heap,     \* backing arrays, by array id
    s,        \* the caller's slice: the argument of NewCollection / Merge,
              \* or the result of the latest All()
    sfrom,    \* "caller" while s is the caller's own data, else the
              \* Collection whose All() returned it
    items,    \* BaseCollection.items of the two Collections c and d
    chunked,  \* the chunks returned by the latest Chunk call
    calls,    \* the invocations of the Chunk callback, in order
    last,     \* the latest call: method, receiver, argument, error, value
    fifo,     \* the run of Enqueue calls in progress on one Collection
    iter,     \* a StructIterator: index and values
    mapHeap,  \* the map objects, by id
    mref,     \* the client's map
    mitems,   \* BaseCollectionMap.items of the Mapping Collections x and y
    async     \* a StructAsyncIterator and the goroutines calling it

vars == <<heap, s, sfrom, items, chunked, calls, last, fifo, iter, mapHeap, mref, mitems,
          async>>

slicevars == <<heap, s, sfrom, items, chunked, calls, fifo, iter>>
mapvars == <<mapHeap, mref, mitems>>

View(b) == Elems(heap, items[b])

Alive == last.err # "panic"

NoRun == [b |-> "c", phase |-> "none", run |-> <<>>, expect |-> 0]

\* Arrays no slice refers to are dropped, the others renumbered in the
\* order s, c, d, iterator, chunks; cells below every referring slice's offset
\* (unreachable in Go) are cut off, and cells that no slice shows and that
\* can only be overwritten before they are shown again are zeroed.
Unnil(h, sl) == IF Cap(h, sl) = 0 THEN NilSlice ELSE sl

RECURSIVE LiveIds(_, _)
LiveIds(rs, acc) ==
    IF rs = <<>> THEN acc
    ELSE LET a == Head(rs).arr
         IN LiveIds(Tail(rs), IF a = 0 \/ \E i \in DOMAIN acc : acc[i] = a
                              THEN acc ELSE Append(acc, a))

MinOff(rs, a) ==
    CHOOSE m \in 0..(2 * MaxLen + 2) :
        /\ \E i \in DOMAIN rs : rs[i].arr = a /\ rs[i].off = m
        /\ \A i \in DOMAIN rs : rs[i].arr = a => m <= rs[i].off

Norm(h, S, IT, CH, IV) ==
    LET rs == [i \in 1..(4 + Len(CH)) |->
                  Unnil(h, IF i = 1 THEN S ELSE IF i = 2 THEN IT["c"]
                           ELSE IF i = 3 THEN IT["d"]
                           ELSE IF i = 4 THEN IV ELSE CH[i - 4])]
        ids == LiveIds(rs, <<>>)
        Ren(sl) == IF sl.arr = 0 THEN NilSlice
                   ELSE [arr |-> CHOOSE i \in DOMAIN ids : ids[i] = sl.arr,
                         off |-> sl.off - MinOff(rs, sl.arr),
                         len |-> sl.len]
        \* Cell k of array a can still be read: some slice shows it, or
        \* the client's slice s can be re-sliced up to it.
        Readable(a, k) == \/ rs[1].arr = a
                          \/ \E i \in DOMAIN rs : rs[i].arr = a /\ k <= rs[i].off + rs[i].len
    IN [heap |-> [i \in DOMAIN ids |->
                     [k \in 1..(Len(h[ids[i]]) - MinOff(rs, ids[i])) |->
                         IF Readable(ids[i], k + MinOff(rs, ids[i]))
                         THEN h[ids[i]][k + MinOff(rs, ids[i])] ELSE 0]],
        s |-> Ren(rs[1]),
        items |-> [b \in Coll |-> Ren(rs[IF b = "c" THEN 2 ELSE 3])],
        chunked |-> [i \in 1..Len(CH) |-> Ren(rs[i + 4])],
        values |-> Ren(rs[4])]

\* The state after a call that leaves the iterator's cursor at index.
CommitIter(h, S, IT, CH, index) ==
    LET n == Norm(h, S, IT, CH, iter.values)
    IN /\ heap' = n.heap
       /\ s' = n.s
       /\ items' = n.items
       /\ chunked' = n.chunked
       /\ iter' = [index |-> index, values |-> n.values]
       /\ UNCHANGED <<mapvars, async>>

Commit(h, S, IT, CH) == CommitIter(h, S, IT, CH, iter.index)

Ret(op, b, arg, err, val) ==
    last' = [op |-> op, b |-> b, arg |-> arg, err |-> err, val |-> val]

\* No map in use.
NoMaps ==
    /\ mapHeap = <<>>
    /\ mref = 0
    /\ mitems = [b \in MapColl |-> 0]

\* A panic ends the program: nothing else changes and nothing follows.
Crash(op, b, arg) ==
    /\ Ret(op, b, arg, "panic", 0)
    /\ UNCHANGED <<slicevars, mapvars, async>>

Lits == UNION {[1..n -> Val] : n \in 0..MaxLen}

\* c = NewCollection(lit); the client keeps the slice it passed or not.
Start(lit, keep) ==
        LET src == Alloc(<<>>, lit)
            c == NewCollection(src.h, src.s)
            n == Norm(c.h, IF keep THEN src.s ELSE NilSlice,
                      [b \in Coll |-> IF b = "c" THEN c.s ELSE NilSlice], <<>>, NilSlice)
        IN /\ heap = n.heap
           /\ s = n.s
           /\ sfrom = "caller"
           /\ items = n.items
           /\ chunked = <<>>
           /\ calls = <<>>
           /\ last = [op |-> "NewCollection", b |-> "c", arg |-> 0, err |-> "nil", val |-> 0]
           /\ fifo = NoRun
           /\ iter = NewIterator(n.heap, NilSlice).it
           /\ NoMaps
           /\ async = NoAsync

Init == \E lit \in Lits : Start(lit, FALSE)

InitOwn == \E lit \in Lits : Start(lit, TRUE)

\* Longer inputs over more values, for the algorithms.
AlgLits == UNION {[1..n -> 1..AlgMaxVal] : n \in 0..AlgMaxLen}

InitAlg == \E lit \in AlgLits : Start(lit, FALSE)

\* --------------------------------------------------- calls by the client
Indices == -1..MaxLen

\* An in-place method of receiver b: b.items = <result>.
InPlace(op, b, arg, r, err, val) ==
    IF r.panic THEN Crash(op, b, arg)
    ELSE /\ Commit(r.h, s, [items EXCEPT ![b] = r.s], <<>>)
         /\ Ret(op, b, arg, err, val)
         /\ calls' = <<>>
         /\ sfrom' = sfrom

\* A transforming method of receiver b; the client keeps the Collection
\* it returns as the other Collection.
Transform(op, b, arg, r) ==
    IF r.panic THEN Crash(op, b, arg)
    ELSE /\ Commit(r.h, s, [items EXCEPT ![Other(b)] = r.s], <<>>)
         /\ Ret(op, b, arg, "nil", 0)
         /\ calls' = <<>>
         /\ sfrom' = sfrom
         /\ fifo' = NoRun

\* A query of receiver b that returns (value, error).
Query(op, b, arg, r, err) ==
    IF r.panic THEN Crash(op, b, arg)
    ELSE /\ Commit(r.h, s, [items EXCEPT ![b] = r.s], <<>>)
         /\ Ret(op, b, arg, err, r.val)
         /\ calls' = <<>>
         /\ sfrom' = sfrom
         /\ fifo' = NoRun

CallNewCollection(b) ==
        /\ Alive
        /\ LET r == NewCollection(heap, s)
           IN /\ Commit(r.h, s, [items EXCEPT ![b] = r.s], <<>>)
              /\ Ret("NewCollection", b, 0, "nil", 0)
        /\ calls' = <<>>
        /\ sfrom' = sfrom
        /\ fifo' = NoRun

CallAll(b) ==
        /\ Alive
        /\ LET r == All(heap, items[b])
           IN /\ Commit(r.h, r.s, items, <<>>)
              /\ Ret("All", b, 0, "nil", 0)
        /\ calls' = <<>>
        /\ sfrom' = "All"
        /\ fifo' = NoRun

\* return b.items[key]
CallGet(b) ==
    \E key \in Indices :
        /\ Alive
        /\ IF key < 0 \/ key >= items[b].len THEN Crash("Get", b, key)
           ELSE Query("Get", b, key, ResVal(heap, items[b], View(b)[key + 1]), "nil")

CallCopy(b) ==
        /\ Alive
        /\ Transform("Copy", b, 0, Copy(heap, items[b]))

CallAdd(b) ==
    \E item \in Val :
        /\ Alive
        /\ Count(items[b]) < MaxLen
        /\ InPlace("Add", b, item, Add(heap, items[b], item), "nil", 0)
        /\ fifo' = NoRun

CallMap(b) ==
    \E fn \in MapFns :
        /\ Alive
        /\ Transform("Map", b, 0, Map(heap, items[b], fn))

CallFilter(b) ==
    \E fn \in PredFns :
        /\ Alive
        /\ Transform("Filter", b, fn, Filter(heap, items[b], fn))

CallExcept(b) ==
    \E fn \in PredFns :
        /\ Alive
        /\ Transform("Except", b, fn, Except(heap, items[b], fn))

CallChunk(b) ==
    \E chunkSize \in -1..MaxChunk, fn \in ChunkFns :
        /\ Alive
        /\ LET k == Chunk(heap, items[b], chunkSize, fn)
               op == IF fn = "nil" THEN "ChunkNilCallback" ELSE "Chunk"
           IN IF k.panic THEN Crash(op, b, chunkSize)
              ELSE /\ Commit(k.h, s, items, k.chunks)
                   /\ calls' = k.calls
                   /\ Ret(op, b, chunkSize, "nil", 0)
                   /\ sfrom' = sfrom
                   /\ fifo' = NoRun

CallRemove(b) ==
    \E index \in Indices :
        /\ Alive
        /\ LET r == Remove(heap, items[b], index)
           IN InPlace("Remove", b, index, r, r.err, 0)
        /\ fifo' = IF Alive' THEN NoRun ELSE fifo

CallConcat(b) ==
    \E vals \in Lits :
        /\ Alive
        /\ Count(items[b]) + Len(vals) <= MaxLen
        /\ InPlace("Concat", b, vals, Concat(heap, items[b], vals), "nil", 0)
        /\ fifo' = NoRun

CallPush(b) ==
    \E item \in Val :
        /\ Alive
        /\ Count(items[b]) < MaxLen
        /\ InPlace("Push", b, item, Push(heap, items[b], item), "nil", 0)
        /\ fifo' = NoRun

CallPop(b) ==
        /\ Alive
        /\ LET r == Pop(heap, items[b])
           IN InPlace("Pop", b, 0, r, r.err, r.val)
        /\ fifo' = IF Alive' THEN NoRun ELSE fifo

CallEnqueue(b) ==
    \E item \in Val :
        /\ Alive
        /\ Count(items[b]) < MaxLen
        /\ InPlace("Enqueue", b, item, Enqueue(heap, items[b], item), "nil", 0)
        /\ fifo' = IF IsEmpty(items[b])
                   THEN [b |-> b, phase |-> "enq", run |-> <<item>>, expect |-> 0]
                   ELSE IF fifo.b = b /\ fifo.phase = "enq"
                   THEN [fifo EXCEPT !.run = Append(@, item)]
                   ELSE NoRun

CallDequeue(b) ==
        /\ Alive
        /\ LET r == Dequeue(heap, items[b])
           IN InPlace("Dequeue", b, 0, r, r.err, r.val)
        /\ fifo' = IF ~Alive' THEN fifo
                   ELSE IF fifo.b = b /\ fifo.phase \in {"enq", "deq"} /\ fifo.run # <<>>
                   THEN [b |-> b, phase |-> "deq", run |-> Tail(fifo.run), expect |-> Head(fifo.run)]
                   ELSE NoRun

CallFirst(b) ==
        /\ Alive
        /\ LET r == First(heap, items[b]) IN Query("First", b, 0, r, r.err)

CallLast(b) ==
        /\ Alive
        /\ LET r == Last(heap, items[b]) IN Query("Last", b, 0, r, r.err)

CallMerge(b) ==
    \E vals \in Lits :
        /\ Alive
        /\ Count(items[b]) + Len(vals) <= MaxLen
        /\ LET merge == Alloc(heap, vals)
           IN Transform("Merge", b, Len(vals), Merge(merge.h, items[b], merge.s))

CallSlice(b) ==
    \E start \in Indices, end \in Indices :
        /\ Alive
        /\ Transform("Slice", b, start, Slice(heap, items[b], start, end))

CallReverse(b) ==
        /\ Alive
        /\ Transform("Reverse", b, 0, Reverse(heap, items[b]))

CallSort(b) ==
    \E fn \in LessFns :
        /\ Alive
        /\ Transform(IF fn = "asc" THEN "SortAsc" ELSE "SortDesc", b, 0, Sort(heap, items[b], fn))

CallFor(b) ==
        /\ Alive
        /\ LET r == For(heap, items[b])
           IN /\ Commit(r.h, s, [items EXCEPT ![b] = r.s], <<>>)
              /\ calls' = r.calls
        /\ Ret("For", b, 0, "nil", 0)
        /\ sfrom' = sfrom
        /\ fifo' = NoRun

CallEach(b) ==
        /\ Alive
        /\ LET r == Each(heap, items[b])
           IN /\ Commit(r.h, s, [items EXCEPT ![b] = r.s], <<>>)
              /\ calls' = r.calls
        /\ Ret("Each", b, 0, "nil", 0)
        /\ sfrom' = sfrom
        /\ fifo' = NoRun

\* What the client does to its own slice s.
CallerSet ==
    \E i \in 0..(s.len - 1), v \in Val :
        /\ Alive
        /\ Commit([heap EXCEPT ![s.arr][s.off + i + 1] = v], s, items, <<>>)
        /\ Ret("CallerSet", "s", i, "nil", 0)
        /\ calls' = <<>>
        /\ UNCHANGED sfrom
        /\ fifo' = NoRun

CallerAppend ==
    \E v \in Val :
        /\ Alive
        /\ s.len < MaxLen
        /\ LET r == GoAppend(heap, s, <<v>>)
           IN Commit(r.h, r.s, items, <<>>)
        /\ Ret("CallerAppend", "s", v, "nil", 0)
        /\ calls' = <<>>
        /\ UNCHANGED sfrom
        /\ fifo' = NoRun

\* s = s[lo:hi], any bounds Go accepts (hi may reach into the capacity).
CallerReslice ==
    \E lo \in 0..Cap(heap, s), hi \in 0..Cap(heap, s) :
        /\ Alive
        /\ lo <= hi
        /\ hi - lo <= MaxLen
        /\ <<lo, hi>> # <<0, s.len>>
        /\ Commit(heap, [s EXCEPT !.off = s.off + lo, !.len = hi - lo], items, <<>>)
        /\ Ret("CallerReslice", "s", lo, "nil", 0)
        /\ calls' = <<>>
        /\ UNCHANGED sfrom
        /\ fifo' = NoRun

\* The toolkit with value callbacks, called on the client's slice:
\* s = slice.Except(s, fn) and s = slice.Filter(s, fn).
ToolkitCall(op, arg, r) ==
        /\ Commit(r.h, r.s, items, <<>>)
        /\ Ret(op, "s", arg, "nil", r.val)
        /\ calls' = <<>>
        /\ UNCHANGED sfrom
        /\ fifo' = NoRun

CallSliceExcept ==
    \E fn \in ValuePredFns :
        /\ Alive
        /\ ToolkitCall("slice.Except", fn, ExceptByValue(heap, s, fn))

CallSliceFilter ==
    \E fn \in ValuePredFns :
        /\ Alive
        /\ ToolkitCall("slice.Filter", fn, FilterByValue(heap, s, fn))

\* The calls on the iterator.
IterCall(op, r) ==
        /\ CommitIter(heap, s, items, <<>>, r.it.index)
        /\ Ret(op, "it", 0, r.err, r.val)
        /\ calls' = <<>>
        /\ UNCHANGED sfrom
        /\ fifo' = NoRun

CallNext ==
        /\ Alive
        /\ IterCall("Next", IterNext(heap, iter))

CallHasNext ==
        /\ Alive
        /\ IterCall("HasNext", [it |-> iter, val |-> HasNext(iter), err |-> "nil"])

CallGetNext ==
        /\ Alive
        /\ IterCall("GetNext", GetNext(heap, iter))

CallGetIndex ==
        /\ Alive
        /\ IterCall("GetIndex", [it |-> iter, val |-> GetIndex(iter), err |-> "nil"])

\* Map objects no reference reaches are dropped, the others renumbered in
\* the order client's map, x, y.
MapNorm(mh, M, MI) ==
    LET a == <<M>>
        b == IF MI["x"] = M THEN a ELSE Append(a, MI["x"])
        ids == IF \E i \in DOMAIN b : b[i] = MI["y"] THEN b ELSE Append(b, MI["y"])
        Ren(id) == CHOOSE i \in DOMAIN ids : ids[i] = id
    IN [mapHeap |-> [i \in DOMAIN ids |-> mh[ids[i]]],
        mref |-> Ren(M),
        mitems |-> [c \in MapColl |-> Ren(MI[c])]]

MapCommit(op, b, key, err, val, mh, MI) ==
    LET n == MapNorm(mh, mref, MI)
    IN /\ mapHeap' = n.mapHeap
       /\ mref' = n.mref
       /\ mitems' = n.mitems
       /\ Ret(op, b, key, err, val)
       /\ UNCHANGED <<slicevars, async>>

CallNewCollectionMap(b) ==
        /\ Alive
        /\ LET r == NewCollectionMap(mapHeap, mref)
           IN MapCommit("NewCollectionMap", b, 0, "nil", 0, r.mh, [mitems EXCEPT ![b] = r.items])

CallMapCopy(b) ==
        /\ Alive
        /\ LET r == MapCopy(mapHeap, mitems[b])
           IN MapCommit("MapCopy", b, 0, "nil", 0, r.mh, [mitems EXCEPT ![OtherMap(b)] = r.items])

\* The client looks at what All() returned and drops it.
CallMapAll(b) ==
        /\ Alive
        /\ LET r == MapAll(mapHeap, mitems[b])
           IN MapCommit("MapAll", b, 0, "nil", r.mh[r.id], r.mh, mitems)

CallMapGet(b) ==
    \E key \in Key :
        /\ Alive
        /\ MapCommit("MapGet", b, key, "nil", MapGet(mapHeap, mitems[b], key), mapHeap, mitems)

CallMapCount(b) ==
        /\ Alive
        /\ MapCommit("MapCount", b, 0, "nil", MapCount(mapHeap, mitems[b]), mapHeap, mitems)

CallMapPut(b) ==
    \E key \in Key, item \in Val :
        /\ Alive
        /\ MapCommit("MapPut", b, key, "nil", item, MapPut(mapHeap, mitems[b], key, item), mitems)

CallMapRemove(b) ==
    \E key \in Key :
        /\ Alive
        /\ LET r == MapRemove(mapHeap, mitems[b], key)
           IN MapCommit("MapRemove", b, key, r.err, 0, r.mh, mitems)

\* The client merges its map m into b and keeps the Mapping Collection
\* Merge returns as the other one.
CallMapMerge(b) ==
        /\ Alive
        /\ LET r == MapMerge(mapHeap, mitems[b], mref)
           IN MapCommit("MapMerge", b, 0, "nil", 0, r.mh, [mitems EXCEPT ![OtherMap(b)] = r.items])

\* What the client does to the map it passed to NewCollectionMap.
CallerMapStore ==
    \E key \in Key, item \in Val :
        /\ Alive
        /\ MapCommit("CallerMapStore", "m", key, "nil", item,
                     MapStore(mapHeap, mref, key, item), mitems)

CallerMapDelete ==
    \E key \in Key :
        /\ Alive
        /\ MapCommit("CallerMapDelete", "m", key, "nil", 0,
                     MapDelete(mapHeap, mref, key), mitems)

\* A step of goroutine p inside a call on the asynchronous iterator.
AsyncAt(p, at) == Alive /\ async.pc[p] = at

AsyncGoto(p, at) == [async EXCEPT !.pc[p] = at]

AsyncFrame == UNCHANGED <<slicevars, mapvars, last>>

AsyncPanic(op, p) ==
    /\ Ret(op, "a", p, "panic", 0)
    /\ UNCHANGED <<slicevars, mapvars, async>>

\* Goroutine p calls Next(fn): if len(a.values) <= a.index { a.qch <- true }
AsyncNext(p) ==
    /\ AsyncAt(p, "idle")
    /\ async' = AsyncGoto(p, IF Len(async.values) <= async.index THEN "sendQuit" ELSE "read")
    /\ AsyncFrame

\* next := a.values[a.index]
AsyncRead(p) ==
    /\ AsyncAt(p, "read")
    /\ IF async.index >= Len(async.values)
       THEN AsyncPanic("AsyncIterator.Next", p)
       ELSE /\ async' = [async EXCEPT !.next[p] = async.values[async.index + 1],
                                      !.pc[p] = "send"]
            /\ AsyncFrame

\* a.ch <- next: waits while the buffer is full.
AsyncSend(p) ==
    /\ AsyncAt(p, "send")
    /\ Len(async.ch) < Len(async.values)
    /\ async' = [async EXCEPT !.ch = Append(@, async.next[p]), !.next[p] = 0,
                              !.pc[p] = "select"]
    /\ AsyncFrame

\* case n := <-a.ch: err := fn(n, a.index); if err != nil { a.errs[a.index] = err }
AsyncSelectValue(p) ==
    \E err \in BOOLEAN :
        /\ AsyncAt(p, "select")
        /\ async.ch # <<>>
        /\ IF err /\ async.index >= Len(async.values)
           THEN AsyncPanic("AsyncIterator.Next", p)
           ELSE /\ async' = [async EXCEPT !.ch = Tail(@),
                                          !.errs = IF err THEN @ \cup {async.index} ELSE @,
                                          !.pc[p] = "load"]
                /\ AsyncFrame

\* a.index++ reads the index ...
AsyncIncLoad(p) ==
    /\ AsyncAt(p, "load")
    /\ async' = [async EXCEPT !.reg[p] = async.index, !.pc[p] = "store"]
    /\ AsyncFrame

\* ... and writes it back, one more; Next returns.
AsyncIncStore(p) ==
    /\ AsyncAt(p, "store")
    /\ async' = [async EXCEPT !.index = async.reg[p] + 1, !.reg[p] = 0, !.pc[p] = "idle"]
    /\ AsyncFrame

\* Goroutine p calls Quit(): a.qch <- true
AsyncQuit(p) ==
    /\ AsyncAt(p, "idle")
    /\ async' = AsyncGoto(p, "quit")
    /\ AsyncFrame

\* The send on the unbuffered quit channel completes when another
\* goroutine q takes it in its select (case <-a.qch: return): q's Next
\* returns, p's Quit returns or p's Next goes on after its if.
AsyncQuitReceived(p, q) ==
    /\ p # q
    /\ Alive
    /\ async.pc[p] \in {"sendQuit", "quit"}
    /\ async.pc[q] = "select"
    /\ async' = [async EXCEPT !.pc[p] = IF @ = "quit" THEN "idle" ELSE "read",
                              !.pc[q] = "idle"]
    /\ AsyncFrame

\* for iter.HasNext() { go iter.Next() }: the loop starts goroutine p.
ChanSpawn(p) ==
    /\ AsyncAt(p, "idle")
    /\ AsyncHasNext(async)
    /\ async' = AsyncGoto(p, "hasNext")
    /\ AsyncFrame

\* if !a.HasNext() { return nil }
ChanHasNext(p) ==
    /\ AsyncAt(p, "hasNext")
    /\ async' = AsyncGoto(p, IF AsyncHasNext(async) THEN "read" ELSE "idle")
    /\ AsyncFrame

\* a.values[a.index], the operand of the send
ChanRead(p) ==
    /\ AsyncAt(p, "read")
    /\ IF async.index >= Len(async.values)
       THEN AsyncPanic("AsyncIterator.Next (channel)", p)
       ELSE /\ async' = [async EXCEPT !.next[p] = async.values[async.index + 1],
                                      !.reg[p] = async.index + 1,
                                      !.pc[p] = "send"]
            /\ AsyncFrame

\* a.ch <- ...: waits while the buffer is full.
ChanSend(p) ==
    /\ AsyncAt(p, "send")
    /\ Len(async.ch) < Len(async.values)
    /\ async' = [async EXCEPT !.ch = Append(@, async.next[p]),
                              !.sent[async.reg[p]] = IF @ < 2 THEN @ + 1 ELSE @,
                              !.next[p] = 0, !.reg[p] = 0, !.pc[p] = "load"]
    /\ AsyncFrame

\* a.index++ reads the index ...
ChanIncLoad(p) ==
    /\ AsyncAt(p, "load")
    /\ async' = [async EXCEPT !.reg[p] = async.index, !.pc[p] = "store"]
    /\ AsyncFrame

\* ... and writes it back, one more; return a.ch
ChanIncStore(p) ==
    /\ AsyncAt(p, "store")
    /\ async' = [async EXCEPT !.index = async.reg[p] + 1, !.reg[p] = 0, !.pc[p] = "idle"]
    /\ AsyncFrame

\* ch := iter.GetNext(); if len(ch) == 0 { break }; log.Print(<-ch)
ChanReceive ==
    /\ Alive
    /\ async.ch # <<>>
    /\ async' = [async EXCEPT !.ch = Tail(@)]
    /\ AsyncFrame

\* r := slice.F(s, ...): the client keeps s and looks at what F returned.
ToolkitResult(op, arg, r) ==
    IF r.panic
    THEN /\ Ret(op, "s", arg, "panic", <<>>)
         /\ UNCHANGED <<slicevars, mapvars, async>>
    ELSE /\ Commit(r.h, s, items, <<>>)
         /\ Ret(op, "s", arg, "nil", Elems(r.h, r.s))
         /\ calls' = <<>>
         /\ UNCHANGED sfrom
         /\ fifo' = NoRun

CallSliceCompact ==
        /\ Alive
        /\ ToolkitResult("slice.Compact", 0, Compact(heap, s))

CallSliceClear ==
        /\ Alive
        /\ ToolkitResult("slice.Clear", 0, Clear(heap, s))

CallSliceClearIdx ==
        /\ Alive
        /\ ToolkitResult("slice.Clear (index callbacks)", 0, SliceClear(heap, s))

CallSliceRemove ==
    \E i \in -1..s.len :
        /\ Alive
        /\ ToolkitResult("slice.Remove", i, RemoveByDelete(heap, s, i))

CallSliceRemoveIdx ==
    \E i \in -1..s.len :
        /\ Alive
        /\ ToolkitResult("slice.Remove (index callbacks)", i, SliceRemove(heap, s, i))

CallSliceReverse ==
        /\ Alive
        /\ ToolkitResult("slice.Reverse", 0, ReverseInPlace(heap, s))

CallSliceSort ==
        /\ Alive
        /\ ToolkitResult("slice.Sort", 0, SortInPlace(heap, s))

\* chunks := slice.Chunk(s, chunkSize) or slice.Chunk(s, chunkSize, fn).
CallSliceChunk ==
    \E chunkSize \in 1..MaxChunk, given \in BOOLEAN :
        /\ Alive
        /\ LET k == ChunkByValue(heap, s, chunkSize, given)
               arg == [chunkSize |-> chunkSize, given |-> given]
           IN IF k.panic
              THEN /\ Ret("slice.Chunk", "s", arg, "panic", <<>>)
                   /\ UNCHANGED <<slicevars, mapvars, async>>
              ELSE /\ Commit(heap, s, items, <<>>)
                   /\ Ret("slice.Chunk", "s", arg, "nil",
                          [i \in DOMAIN k.chunks |-> Elems(heap, k.chunks[i])])
                   /\ calls' = <<>>
                   /\ UNCHANGED sfrom
                   /\ fifo' = NoRun

CallSliceExceptResult ==
    \E fn \in ValuePredFns :
        /\ Alive
        /\ ToolkitResult("slice.Except", fn, ExceptByValue(heap, s, fn))

\* One Collection c and the calls a client makes on it.
Next ==
    \E b \in {"c"} :
        \/ CallGet(b) \/ CallAdd(b) \/ CallChunk(b) \/ CallRemove(b) \/ CallConcat(b)
        \/ CallPush(b) \/ CallPop(b) \/ CallEnqueue(b) \/ CallDequeue(b)
        \/ CallFirst(b) \/ CallLast(b)

Spec == Init /\ [][Next]_vars

\* Two Collections, each made from the other by the transforming methods
\* and then changed in place.
NextCopy ==
    \E b \in Coll :
        \/ CallCopy(b) \/ CallMap(b) \/ CallFilter(b) \/ CallExcept(b) \/ CallMerge(b)
        \/ CallSlice(b) \/ CallReverse(b) \/ CallSort(b) \/ CallChunk(b)
        \/ CallAdd(b) \/ CallRemove(b) \/ CallConcat(b) \/ CallPush(b) \/ CallPop(b)
        \/ CallEnqueue(b) \/ CallDequeue(b)

SpecCopy == Init /\ [][NextCopy]_vars

\* Every method of the Collection interface on the Collection c; the
\* Collection a method returns is kept as d and the slice All returns as
\* s, and the client calls on while it holds at most one of the two.
NextCount ==
    \E b \in {"c"} :
      /\ s = NilSlice \/ items["d"] = NilSlice
      /\
        \/ CallAll(b) \/ CallGet(b) \/ CallFirst(b) \/ CallLast(b)
        \/ CallFor(b) \/ CallEach(b) \/ CallChunk(b)
        \/ CallCopy(b) \/ CallMap(b) \/ CallFilter(b) \/ CallExcept(b) \/ CallMerge(b)
        \/ CallSlice(b) \/ CallReverse(b) \/ CallSort(b)
        \/ CallAdd(b) \/ CallRemove(b) \/ CallConcat(b) \/ CallPush(b) \/ CallPop(b)
        \/ CallEnqueue(b) \/ CallDequeue(b)

SpecCount == Init /\ [][NextCount]_vars

\* The client's slice s next to the Collection c made from it.
NextOwn ==
    \/ CallerSet \/ CallerAppend \/ CallerReslice
    \/ \E b \in {"c"} :
        \/ CallNewCollection(b) \/ CallAll(b)
        \/ CallAdd(b) \/ CallRemove(b) \/ CallConcat(b) \/ CallPush(b) \/ CallPop(b)
        \/ CallEnqueue(b) \/ CallDequeue(b)

SpecOwn == InitOwn /\ [][NextOwn]_vars

\* The algorithms applied to a Collection c that is not changed in place.
NextAlg ==
    \E b \in {"c"} : CallChunk(b) \/ CallSort(b)

SpecAlg == InitAlg /\ [][NextAlg]_vars

\* Filter and Except of a Collection c, and Reverse, For and Each of c
\* and of what these returned.
NextRel ==
    \/ \E b \in {"c"} : CallFilter(b) \/ CallExcept(b)
    \/ \E b \in Coll : CallReverse(b) \/ CallFor(b) \/ CallEach(b)

SpecRel == InitAlg /\ [][NextRel]_vars

\* A client's slice s and the toolkit functions applied to it.
InitSlice == \E lit \in AlgLits : Start(lit, TRUE)

NextSlice == CallSliceExcept \/ CallSliceFilter

SpecSlice == InitSlice /\ [][NextSlice]_vars

\* A client's slice s, kept as it is, and the toolkit functions called on it.
InitTool ==
    \E lit \in AlgLits :
        LET src == Alloc(<<>>, lit)
            n == Norm(src.h, src.s, [b \in Coll |-> NilSlice], <<>>, NilSlice)
        IN /\ heap = n.heap
           /\ s = n.s
           /\ sfrom = "caller"
           /\ items = n.items
           /\ chunked = <<>>
           /\ calls = <<>>
           /\ last = [op |-> "literal", b |-> "s", arg |-> 0, err |-> "nil", val |-> <<>>]
           /\ fifo = NoRun
           /\ iter = NewIterator(n.heap, NilSlice).it
           /\ NoMaps
           /\ async = NoAsync

NextTool ==
    \/ CallSliceCompact \/ CallSliceClear \/ CallSliceClearIdx
    \/ CallSliceRemove \/ CallSliceRemoveIdx \/ CallSliceReverse \/ CallSliceSort
    \/ CallSliceExceptResult \/ CallSliceChunk

SpecTool == InitTool /\ [][NextTool]_vars

\* values := []int{...}; it := NewIterator(values); c := NewCollection(values):
\* the iterator, the slice it was made from, still in the client's hands,
\* and a Collection holding the values as they were at that moment.
InitIter ==
    \E lit \in Lits :
        LET src == Alloc(<<>>, lit)
            c == NewCollection(src.h, src.s)
            ni == NewIterator(c.h, src.s)
            n == Norm(ni.h, src.s, [b \in Coll |-> IF b = "c" THEN c.s ELSE NilSlice],
                      <<>>, ni.it.values)
        IN /\ heap = n.heap
           /\ s = n.s
           /\ sfrom = "caller"
           /\ items = n.items
           /\ chunked = <<>>
           /\ calls = <<>>
           /\ last = [op |-> "NewIterator", b |-> "it", arg |-> 0, err |-> "nil", val |-> 0]
           /\ fifo = NoRun
           /\ iter = [index |-> ni.it.index, values |-> n.values]
           /\ NoMaps
           /\ async = NoAsync

NextIter ==
    \/ CallNext \/ CallHasNext \/ CallGetNext \/ CallGetIndex
    \/ CallerSet \/ CallerAppend \/ CallerReslice

SpecIter == InitIter /\ [][NextIter]_vars

\* m := map[int]int{...}; x := NewCollectionMap(m); y := NewCollectionMap(m).
MapLits == UNION {[D -> Val] : D \in SUBSET Key}

InitMap ==
    \E lit \in MapLits :
        LET x == NewCollectionMap(<<lit>>, 1)
            y == NewCollectionMap(x.mh, 1)
            n == MapNorm(y.mh, 1, [b \in MapColl |-> IF b = "x" THEN x.items ELSE y.items])
        IN /\ mapHeap = n.mapHeap
           /\ mref = n.mref
           /\ mitems = n.mitems
           /\ heap = <<>>
           /\ s = NilSlice
           /\ sfrom = "caller"
           /\ items = [b \in Coll |-> NilSlice]
           /\ chunked = <<>>
           /\ calls = <<>>
           /\ last = [op |-> "NewCollectionMap", b |-> "y", arg |-> 0, err |-> "nil", val |-> 0]
           /\ fifo = NoRun
           /\ iter = NewIterator(<<>>, NilSlice).it
           /\ async = NoAsync

NextMap ==
    \/ CallerMapStore \/ CallerMapDelete
    \/ \E b \in MapColl :
        \/ CallNewCollectionMap(b) \/ CallMapCopy(b) \/ CallMapAll(b) \/ CallMapGet(b)
        \/ CallMapCount(b) \/ CallMapPut(b) \/ CallMapRemove(b) \/ CallMapMerge(b)

SpecMap == InitMap /\ [][NextMap]_vars

\* iter := NewAsyncIterator([]int{1, ..., n}) and MaxProc goroutines.
AsyncLits == {[i \in 1..n |-> i] : n \in 0..MaxLen}

InitWith(a) ==
    /\ heap = <<>>
    /\ s = NilSlice
    /\ sfrom = "caller"
    /\ items = [b \in Coll |-> NilSlice]
    /\ chunked = <<>>
    /\ calls = <<>>
    /\ last = [op |-> "NewAsyncIterator", b |-> "a", arg |-> 0, err |-> "nil", val |-> 0]
    /\ fifo = NoRun
    /\ iter = NewIterator(<<>>, NilSlice).it
    /\ NoMaps
    /\ async = a

InitAsync == \E lit \in AsyncLits : InitWith(NewAsyncIterator(lit))

\* What goroutine p does once it is inside a call.
AsyncStep(p) ==
    \/ AsyncRead(p) \/ AsyncSend(p) \/ AsyncSelectValue(p)
    \/ AsyncIncLoad(p) \/ AsyncIncStore(p)
    \/ \E q \in Proc : AsyncQuitReceived(p, q) \/ AsyncQuitReceived(q, p)

NextAsync ==
    \E p \in Proc : AsyncNext(p) \/ AsyncQuit(p) \/ AsyncStep(p)

\* The Go scheduler runs every goroutine that can take a step; whether a
\* goroutine makes another call is up to the client.
SpecAsync ==
    InitAsync /\ [][NextAsync]_vars /\ \A p \in Proc : WF_vars(AsyncStep(p))

InitChan == \E lit \in AsyncLits : InitWith(NewAsyncIteratorChan(lit))

NextChan ==
    \/ ChanReceive
    \/ \E p \in Proc :
          \/ ChanSpawn(p) \/ ChanHasNext(p) \/ ChanRead(p) \/ ChanSend(p)
          \/ ChanIncLoad(p) \/ ChanIncStore(p)

SpecChan == InitChan /\ [][NextChan]_vars

\* ------------------------------------------------------------ properties
GuardedOps == {"First", "Last", "Pop", "Dequeue", "Remove"}
InPlaceOps == {"Add", "Push", "Pop", "Enqueue", "Dequeue", "Remove", "Concat"}
TransformOps == {"Map", "Filter", "Except", "Copy", "Merge", "Slice", "Reverse",
                 "SortAsc", "SortDesc"}
ChunkOps == {"Chunk", "ChunkNilCallback"}
CallerOps == {"CallerSet", "CallerAppend", "CallerReslice"}

\* Everything the client can reach through s: its elements and the cells
\* up to its capacity.
CapView(h, sl) == [k \in 1..Cap(h, sl) |-> h[sl.arr][sl.off + k]]

\* C1: First, Last, Pop, Dequeue and Remove(index), for any index, on a
\* Collection whose Count() is 0 return ErrIsEmpty, do not panic and leave
\* the Collection as it was (still empty).
C1_EmptyGuard ==
    [][\A b \in Coll :
          (Count(items[b]) = 0 /\ last'.b = b /\ last'.op \in GuardedOps)
              => /\ last'.err = "ErrIsEmpty"
                 /\ Count(items'[b]) = 0
                 /\ items' = items
                 /\ heap' = heap]_vars

C1_Witness ==
    /\ last.op = "Remove"
    /\ last.arg = 1
    /\ last.err = "ErrIsEmpty"
    /\ Count(items[last.b]) = 0

\* C2: Map, Filter, Except, Copy, Merge, Slice, Reverse, Sort and Chunk
\* leave the receiver's items exactly as they were, and what they return
\* shares no storage with the receiver: no chunk lies in a Collection's
\* backing array, and an in-place method of one Collection never changes
\* the items of the other.
C2_TransformFrame ==
    [][/\ last'.op \in TransformOps \cup ChunkOps
           => Elems(heap', items'[last'.b]) = Elems(heap, items[last'.b])
       /\ last'.op \in ChunkOps
           => \A i \in DOMAIN chunked' : \A b \in Coll : chunked'[i].arr # items'[b].arr
       /\ (last'.op \in TransformOps /\ last'.err # "panic" /\ items'[last'.b].arr # 0)
           => items'[Other(last'.b)].arr # items'[last'.b].arr
       /\ last'.op \in InPlaceOps
           => Elems(heap', items'[Other(last'.b)]) = Elems(heap, items[Other(last'.b)])]_vars

C2_Witness ==
    /\ last.op = "SortDesc"
    /\ last.b = "c"
    /\ View("c") = <<1, 2>>
    /\ View("d") = <<2, 1>>

\* C3: NewCollection stores a copy: whatever the client later does to the
\* slice it passed (overwrite, append, re-slice) leaves the Collection's
\* items unchanged, and no in-place method of the Collection changes
\* anything the client can reach through that slice.
C3_DefensiveCopy ==
    [][/\ last'.op \in CallerOps
           => \A b \in Coll : Elems(heap', items'[b]) = Elems(heap, items[b])
       /\ last'.op \in InPlaceOps
           => CapView(heap', s') = CapView(heap, s)
       /\ last'.op = "NewCollection"
           => /\ Elems(heap', items'[last'.b]) = Elems(heap, s)
              /\ CapView(heap', s') = CapView(heap, s)]_vars

C3_Witness ==
    /\ sfrom = "caller"
    /\ last.op = "CallerSet"
    /\ s.len = 2
    /\ Count(items["c"]) = 2
    /\ Elems(heap, s) # View("c")

\* C4: All() returns a copy equal by value to the current items, and
\* overwriting, appending to or re-slicing what it returned never changes
\* the Collection's items (hence what Items, Get, First, Last and Count
\* report).
C4_AllCopy ==
    [][/\ last'.op = "All"
           => /\ Elems(heap', s') = Elems(heap, items[last'.b])
              /\ Elems(heap', items'[last'.b]) = Elems(heap, items[last'.b])
       /\ (sfrom = "All" /\ last'.op \in CallerOps)
           => \A b \in Coll : /\ Elems(heap', items'[b]) = Elems(heap, items[b])
                              /\ Count(items'[b]) = Count(items[b])]_vars

C4_Witness ==
    /\ sfrom = "All"
    /\ last.op = "CallerSet"
    /\ s.len = Count(items["c"])
    /\ s.len > 0
    /\ Elems(heap, s) # View("c")

\* C5: Copy() returns a Collection with items equal by value to the
\* receiver's, on storage of its own: in-place methods applied afterwards
\* to the copy leave the receiver's items unchanged, and in-place methods
\* applied to the receiver leave the copy's items unchanged.
C5_CopyIndependent ==
    [][/\ last'.op = "Copy"
           => /\ Elems(heap', items'[Other(last'.b)]) = Elems(heap, items[last'.b])
              /\ Elems(heap', items'[last'.b]) = Elems(heap, items[last'.b])
       /\ last'.op \in InPlaceOps
           => Elems(heap', items'[Other(last'.b)]) = Elems(heap, items[Other(last'.b)])]_vars

C5_Witness ==
    /\ last.op = "Copy"
    /\ last.b = "c"
    /\ Count(items["c"]) = 2
    /\ View("d") = View("c")
    /\ items["d"].arr # items["c"].arr

RECURSIVE Flatten(_)
Flatten(ss) == IF ss = <<>> THEN <<>> ELSE Head(ss) \o Flatten(Tail(ss))

ChunkVals == [i \in DOMAIN chunked |-> Elems(heap, chunked[i])]

CeilDiv(n, k) == (n + k - 1) \div k

Min(a, b) == IF a <= b THEN a ELSE b

Occurrences(seq, v) == Cardinality({i \in DOMAIN seq : seq[i] = v})

\* C6: for chunkSize > 0, Chunk(chunkSize, cb) returns non-empty contiguous
\* chunks whose concatenation, in order, is the Collection's items; every
\* chunk but the last has exactly chunkSize elements and the last holds
\* the rest.
C6_ChunkPartition ==
    (last.op = "Chunk" /\ last.arg > 0 /\ last.err = "nil")
        => /\ Flatten(ChunkVals) = View(last.b)
           /\ \A i \in DOMAIN chunked :
                 /\ chunked[i].len \in 1..last.arg
                 /\ i < Len(chunked) => chunked[i].len = last.arg

\* C7: with a callback and chunkSize > 0 on n items, the callback runs
\* ceil(n / chunkSize) times, in chunk order, the i-th call (from 0) with
\* the i-th chunk and the index i.
C7_ChunkCallback ==
    (last.op = "Chunk" /\ last.arg > 0 /\ last.err = "nil")
        => LET n == Count(items[last.b]) IN
           /\ Len(calls) = CeilDiv(n, last.arg)
           /\ \A i \in DOMAIN calls :
                 /\ calls[i].i = i - 1
                 /\ calls[i].v = SubSeq(View(last.b), (i - 1) * last.arg + 1,
                                        Min(i * last.arg, n))

\* C8: Chunk with chunkSize <= 0 returns an explicit invalid-argument
\* error: it does not panic and does not call the callback.
C8_ChunkBadSize ==
    (last.op \in ChunkOps /\ last.arg <= 0)
        => /\ last.err = "ErrInvalidArgument"
           /\ calls = <<>>

\* C9: starting from an empty Collection, after Enqueue(x1), ...,
\* Enqueue(xn) and nothing else, successive Dequeue calls return x1, ...,
\* xn in that order.
C9_Fifo ==
    (last.op = "Dequeue" /\ fifo.phase = "deq")
        => /\ last.err = "nil"
           /\ last.val = fifo.expect

\* C10: Sort(less), with less(i, j) comparing the receiver's elements at i
\* and j under a strict total order, returns a permutation of the items
\* arranged in that order.
C10_Sorted ==
    (last.op \in {"SortAsc", "SortDesc"} /\ last.err = "nil")
        => LET in == View(last.b)
               out == View(Other(last.b))
           IN /\ Len(out) = Len(in)
              /\ \A v \in 1..AlgMaxVal : Occurrences(out, v) = Occurrences(in, v)
              /\ \A i, j \in DOMAIN out :
                    i < j => IF last.op = "SortAsc" THEN out[i] <= out[j]
                             ELSE out[i] >= out[j]

\* C11: Remove(index) on a non-empty Collection with index < 0 or
\* index >= Count() returns the index-out-of-range error (not the
\* empty-collection error, not a panic) and leaves the items unchanged.
C11_RemoveOutOfRange ==
    [][\A b \in Coll :
          (/\ last'.op = "Remove"
           /\ last'.b = b
           /\ Count(items[b]) > 0
           /\ (last'.arg < 0 \/ last'.arg >= Count(items[b])))
              => /\ last'.err = "ErrIndexOutOfRange"
                 /\ Elems(heap', items'[b]) = Elems(heap, items[b])]_vars

\* C12: Get(index) returns the element at index when 0 <= index < Count();
\* an index out of range (any index on an empty Collection included) is
\* reported as the index-out-of-range failure, not as a panic.
C12_GetChecked ==
    [][\A b \in Coll :
          (last'.op = "Get" /\ last'.b = b)
              => IF 0 <= last'.arg /\ last'.arg < Count(items[b])
                 THEN /\ last'.err = "nil"
                      /\ last'.val = Elems(heap, items[b])[last'.arg + 1]
                 ELSE last'.err = "ErrIndexOutOfRange"]_vars

\* The elements seq[i] (i from 0) with fn(seq[i], i) = want, in order.
RECURSIVE Selected(_, _, _, _)
Selected(seq, fn, want, i) ==
    IF i >= Len(seq) THEN <<>>
    ELSE (IF Pred(fn, seq[i + 1], i) = want THEN <<seq[i + 1]>> ELSE <<>>)
         \o Selected(seq, fn, want, i + 1)

\* C13: c.Except(fn) holds exactly the items of c for which fn is false,
\* in their original order, which is what c.Filter(not fn) returns;
\* c.Filter(fn) holds exactly those for which fn is true, so the two
\* results partition the items; c itself is unchanged.
C13_Complement ==
    [][\A b \in Coll :
          (last'.op \in {"Filter", "Except"} /\ last'.b = b)
              => LET in == Elems(heap, items[b])
                     out == Elems(heap', items'[Other(b)])
                     fn == last'.arg
                     f == Filter(heap, items[b], fn)
                     e == Except(heap, items[b], fn)
                     fnot == Filter(heap, items[b], Not(fn))
                 IN /\ last'.err = "nil"
                    /\ out = Selected(in, fn, last'.op = "Filter", 0)
                    /\ Elems(e.h, e.s) = Elems(fnot.h, fnot.s)
                    /\ Elems(e.h, e.s) = Selected(in, fn, FALSE, 0)
                    /\ Elems(f.h, f.s) = Selected(in, fn, TRUE, 0)
                    /\ f.s.len + e.s.len = Len(in)
                    /\ Elems(heap', items'[b]) = in]_vars

C13_Witness ==
    /\ last.op = "Except"
    /\ last.b = "c"
    /\ last.arg = [byIndex |-> FALSE, k |-> 2, neg |-> FALSE]
    /\ View("c") = <<2, 1, 2, 3>>
    /\ View("d") = <<1, 3>>

\* C15: Reverse returns the items in the opposite order, element i being
\* the receiver's element Count() - 1 - i, and reversing what Reverse
\* returned gives the original items back.
C15_ReverseInvolution ==
    [][\A b \in Coll :
          (last'.op = "Reverse" /\ last'.b = b)
              => LET in == Elems(heap, items[b])
                     out == Elems(heap', items'[Other(b)])
                 IN /\ last'.err = "nil"
                    /\ Len(out) = Len(in)
                    /\ \A i \in 0..(Len(in) - 1) : out[i + 1] = in[Len(in) - i]
                    /\ (last.op = "Reverse" /\ last.b = Other(b))
                          => out = Elems(heap, items[Other(b)])]_vars

C15_Witness ==
    /\ last.op = "Reverse"
    /\ last.b = "d"
    /\ View("d") = <<3, 2, 1, 1>>
    /\ View("c") = <<1, 1, 2, 3>>

\* C14: slice.Except(s, fn) of the toolkit with value callbacks returns
\* exactly the elements of s for which fn is false, in their original
\* order (so its length is their number), which is slice.Filter(s, not fn).
C14_ExceptByValue ==
    [][last'.op = "slice.Except"
          => LET in == Elems(heap, s)
                 fnot == FilterByValue(heap, s, Not(last'.arg))
             IN /\ Elems(heap', s') = Selected(in, last'.arg, FALSE, 0)
                /\ Elems(heap', s') = Elems(fnot.h, fnot.s)]_vars

\* C16: with cursor k over n values, HasNext() is k < n; Next() with k < n
\* returns the element at position k, no error, and moves the cursor to
\* k + 1; Next() with k = n returns the "has not next" error, no value, and
\* leaves the cursor at n.
C16_NextHasNext ==
    [][LET k == iter.index
           n == iter.values.len
       IN /\ last'.op = "HasNext" => last'.val = (k < n)
          /\ last'.op = "Next"
                => IF k < n
                   THEN /\ last'.err = "nil"
                        /\ last'.val = Elems(heap, iter.values)[k + 1]
                        /\ iter'.index = k + 1
                   ELSE /\ k = n
                        /\ last'.err = "has not next"
                        /\ last'.val = 0
                        /\ iter'.index = n]_vars

C16_Witness ==
    /\ last.op = "Next"
    /\ last.err = "has not next"
    /\ iter.values.len = 2
    /\ iter.index = 2

\* C17: the cursor starts at 0, stays within 0..length, never decreases,
\* is left alone by HasNext, GetNext and GetIndex, and once HasNext() is
\* false it stays false whatever the client does next.
C17_CursorMonotone ==
    /\ [](/\ 0 <= iter.index
          /\ iter.index <= iter.values.len
          /\ last.op = "NewIterator" => iter.index = 0)
    /\ [][/\ iter'.index >= iter.index
          /\ last'.op \in {"HasNext", "GetNext", "GetIndex"} => iter'.index = iter.index
          /\ last'.op = "GetIndex" => last'.val = iter.index
          /\ ~HasNext(iter) => ~HasNext(iter')]_vars

C17_Witness ==
    /\ last.op = "CallerAppend"
    /\ iter.values.len = 2
    /\ iter.index = 2
    /\ s.len = 2
    /\ s.arr = iter.values.arr

\* C18: the iterator traverses the values as they were when it was made:
\* whatever the client does to the slice it passed to NewIterator, Next and
\* GetNext return the elements that slice had then (those of c).
C18_IteratorSnapshot ==
    [][(last'.op \in {"Next", "GetNext"} /\ last'.err = "nil")
          => last'.val = View("c")[iter.index + 1]]_vars

\* The entries of Mapping Collection b.
Entries(mh, MI, b) == mh[MI[b]]

\* C19: Remove(key) of a Mapping Collection returns the key-not-found
\* error and leaves the map unchanged when key is absent; when key is
\* present it removes exactly that entry (Count one less, every other
\* entry unchanged) and returns no error.
C19_MapRemove ==
    [][\A b \in MapColl :
          (last'.op = "MapRemove" /\ last'.b = b)
              => LET before == Entries(mapHeap, mitems, b)
                     after == Entries(mapHeap', mitems', b)
                     key == last'.arg
                 IN IF key \in DOMAIN before
                    THEN /\ last'.err = "nil"
                         /\ DOMAIN after = (DOMAIN before) \ {key}
                         /\ \A k \in DOMAIN after : after[k] = before[k]
                         /\ MapCount(mapHeap', mitems'[b]) = MapCount(mapHeap, mitems[b]) - 1
                    ELSE /\ last'.err = "this map has not key"
                         /\ after = before
                         /\ MapCount(mapHeap', mitems'[b]) = MapCount(mapHeap, mitems[b])]_vars

C19_Witness ==
    /\ last.op = "MapRemove"
    /\ last.b = "x"
    /\ last.arg = 1
    /\ last.err = "nil"
    /\ DOMAIN Entries(mapHeap, mitems, "x") = {2}

\* C20: a Mapping Collection owns its map: what the client stores in or
\* deletes from the map it passed to NewCollectionMap changes no Mapping
\* Collection, Put and Remove on a Mapping Collection do not change the
\* client's map, nor the other Mapping Collection.
C20_MapOwnership ==
    [][/\ last'.op \in {"CallerMapStore", "CallerMapDelete"}
           => \A b \in MapColl :
                 Entries(mapHeap', mitems', b) = Entries(mapHeap, mitems, b)
       /\ last'.op \in {"MapPut", "MapRemove"}
           => /\ mapHeap'[mref'] = mapHeap[mref]
              /\ Entries(mapHeap', mitems', OtherMap(last'.b))
                    = Entries(mapHeap, mitems, OtherMap(last'.b))]_vars

\* The first element of every maximal run of adjacent equal elements.
RECURSIVE RunHeads(_, _)
RunHeads(seq, i) ==
    IF i > Len(seq) THEN <<>>
    ELSE (IF i = 1 \/ seq[i] # seq[i - 1] THEN <<seq[i]>> ELSE <<>>) \o RunHeads(seq, i + 1)

C22_ClearEmpty ==
    (last.op \in {"slice.Clear", "slice.Clear (index callbacks)"} /\ last.err = "nil")
        => Len(last.val) = 0

\* C25: slice.Remove(s, i), slice.Reverse(s), slice.Except(s, fn) and
\* slice.Sort(s) leave every element of the client's slice s, at its
\* original length, as it was before the call.
C25_ToolkitPure ==
    [][(/\ last'.op \in {"slice.Remove", "slice.Remove (index callbacks)",
                         "slice.Reverse", "slice.Except", "slice.Sort"}
        /\ last'.err = "nil")
          => Elems(heap', s') = Elems(heap, s)]_vars

\* C23: For and Each call fn exactly Count() times, in ascending index
\* order, the k-th call (from 0) with (items[k], k), and leave the
\* Collection's items as they were.
C23_ForEach ==
    [][\A b \in Coll :
          (last'.op \in {"For", "Each"} /\ last'.b = b)
              => /\ last'.err = "nil"
                 /\ Len(calls') = Count(items[b])
                 /\ \A k \in 0..(Count(items[b]) - 1) :
                       calls'[k + 1] = [v |-> Elems(heap, items[b])[k + 1], i |-> k]
                 /\ Elems(heap', items'[b]) = Elems(heap, items[b])
                 /\ Count(items'[b]) = Count(items[b])]_vars

C23_Witness ==
    /\ last.op = "For"
    /\ last.b = "c"
    /\ View("c") = <<3, 1, 2, 1>>
    /\ Len(calls) = 4
    /\ calls[4] = [v |-> 1, i |-> 3]

\* C24: after Add(x) or Push(x) the items are the previous items followed
\* by x; after Concat(y1, ..., yk) they are the previous items followed by
\* y1, ..., yk in that order (unchanged when k = 0).
C24_AppendAtEnd ==
    [][\A b \in Coll :
          /\ (last'.op \in {"Add", "Push"} /\ last'.b = b)
                => /\ last'.err = "nil"
                   /\ Elems(heap', items'[b]) = Append(Elems(heap, items[b]), last'.arg)
          /\ (last'.op = "Concat" /\ last'.b = b)
                => /\ last'.err = "nil"
                   /\ Elems(heap', items'[b]) = Elems(heap, items[b]) \o last'.arg]_vars

C24_Witness ==
    /\ last.op = "Concat"
    /\ last.arg = <<2>>
    /\ View("c") = <<1, 2>>

\* The chunks of seq: runs of size elements, the last one holding the rest.
RECURSIVE ChunksOf(_, _)
ChunksOf(seq, size) ==
    IF seq = <<>> THEN <<>>
    ELSE IF Len(seq) <= size THEN <<seq>>
    ELSE <<SubSeq(seq, 1, size)>> \o ChunksOf(SubSeq(seq, size + 1, Len(seq)), size)

\* C26: slice.Chunk(s, chunkSize) without a callback, chunkSize > 0,
\* completes without failure and returns the same chunks, a shorter final
\* chunk included, as the call with a callback.
C26_ChunkNoCallback ==
    [][(last'.op = "slice.Chunk" /\ ~last'.arg.given)
          => LET with == ChunkByValue(heap, s, last'.arg.chunkSize, TRUE)
             IN /\ last'.err = "nil"
                /\ last'.val = [i \in DOMAIN with.chunks |-> Elems(heap, with.chunks[i])]
                /\ last'.val = ChunksOf(Elems(heap, s), last'.arg.chunkSize)]_vars

\* C27: Count() is the number of items and IsEmpty() holds iff Count() = 0;
\* Add, Push and Enqueue raise the receiver's Count by 1, Concat of k items
\* by k, a successful Pop, Dequeue or Remove lowers it by 1, and every call
\* that returns an error and every query or transformation leaves it as it
\* was.
C27_CountTracksItems ==
    [][LET b == last'.b
           before == Count(items[b])
           after == Count(items'[b])
       IN /\ \A x \in Coll : /\ Count(items'[x]) = Len(Elems(heap', items'[x]))
                             /\ IsEmpty(items'[x]) <=> Count(items'[x]) = 0
          /\ last'.err # "panic" =>
                CASE last'.op \in {"Add", "Push", "Enqueue"} -> after = before + 1
                  [] last'.op = "Concat" -> after = before + Len(last'.arg)
                  [] last'.op \in {"Pop", "Dequeue", "Remove"} /\ last'.err = "nil"
                        -> after = before - 1
                  [] OTHER -> after = before]_vars

\* A Pop has succeeded on a Collection that still holds an item.
C27_Witness ==
    /\ last.op = "Pop"
    /\ last.err = "nil"
    /\ Count(items[last.b]) > 0

\* C28: Merge(m2) returns a new Mapping Collection whose keys are the
\* receiver's keys together with m2's, a key of m2 with m2's value and
\* every other key with the receiver's value; the receiver's map and m2
\* stay as they were.
C28_MapMerge ==
    [][last'.op = "MapMerge"
          => LET recv == Entries(mapHeap, mitems, last'.b)
                 m2 == mapHeap[mref]
                 got == Entries(mapHeap', mitems', OtherMap(last'.b))
             IN /\ DOMAIN got = (DOMAIN recv) \cup (DOMAIN m2)
                /\ \A k \in DOMAIN got : got[k] = IF k \in DOMAIN m2 THEN m2[k] ELSE recv[k]
                /\ mitems'[OtherMap(last'.b)] \notin {mitems'[last'.b], mref'}
                /\ Entries(mapHeap', mitems', last'.b) = recv
                /\ mapHeap'[mref'] = m2]_vars

\* A Merge where the receiver and m2 hold different values under a common
\* key and one of them has a key the other lacks.
C28_Witness ==
    /\ last.op = "MapMerge"
    /\ LET recv == Entries(mapHeap, mitems, last.b)
           m2 == mapHeap[mref]
       IN /\ mitems[last.b] # mref
          /\ \E k \in (DOMAIN recv) \cap (DOMAIN m2) : recv[k] # m2[k]
          /\ DOMAIN recv # DOMAIN m2

\* C29: with the callback-style AsyncIterator no Next reads values past
\* the last element, and every call of Next and of Quit returns: no call
\* waits forever on the value channel or on the quit channel.
C29_AsyncReturns ==
    /\ [](last.err # "panic")
    /\ \A p \in Proc : (async.pc[p] # "idle") ~> (async.pc[p] = "idle")

\* C30: with the channel-returning AsyncIterator and Next called from
\* several goroutines while HasNext() holds, no Next reads values out of
\* range, the index never exceeds len(values), no element is sent twice,
\* every element has been sent once when all goroutines are done and
\* nothing is left, and no goroutine waits to send on a full channel.
C30_ConcurrentNext ==
    /\ last.err # "panic"
    /\ async.index <= Len(async.values)
    /\ \A i \in DOMAIN async.sent : async.sent[i] <= 1
    /\ ((\A p \in Proc : async.pc[p] = "idle") /\ ~AsyncHasNext(async))
          => \A i \in DOMAIN async.sent : async.sent[i] = 1
    /\ \A p \in Proc : ~(async.pc[p] = "send" /\ Len(async.ch) = Len(async.values))

====
